---------------------------- MODULE Spec2Model ----------------------------
(***************************************************************************)
(* theory_scrapper: ingestion of paper metadata from arXiv and journal     *)
(* RSS feeds into a relational store, favorites, and the daily digest.     *)
(*                                                                         *)
(* Strings are tuples of one-character strings, so that the regular        *)
(* expressions and substring tests of the code are computed, not assumed.  *)
(* None and the empty string are both the empty tuple: every place the     *)
(* code reads them it only tests their truth value.                        *)
(***************************************************************************)
EXTENDS Integers, Sequences, FiniteSets, TLC

VARIABLES
    papers,     \* table papers: committed rows in insertion order
    keywords,   \* table keywords: committed names in insertion order
    users,      \* table users: user -> email_digest_enabled
    favorites,  \* table favorites: committed rows <<user, paper row number>>
    now,        \* datetime.utcnow(), in hours
    req,        \* per worker thread: the /refresh request it is serving
    tape,       \* what the sources delivered to the last recorded run
    resp,       \* the last response of a favorites or settings request
    digest,     \* the outcome of the last send_daily_digest job
    probe       \* the raw entry handed to the normaliser, and its record

vars == <<papers, keywords, users, favorites, now, req, tape, resp, digest, probe>>

storeVars == <<papers, keywords, users, favorites>>

-----------------------------------------------------------------------------
(* Bounds of the model *)

\* Entries one ingestion run reads, over all its sources.
MaxEntries == 2

\* Clock ticks of a behaviour.
MaxTicks == 1

\* Recorded runs (each followed by its repetition) of a behaviour.
MaxRounds == 2

\* users of the digest
DigestUsers == 3

-----------------------------------------------------------------------------
(* Strings *)

None == <<>>

Digits == {"0", "1", "2", "3", "4", "5", "6", "7", "8", "9"}

Whitespace == {" "}

LowerCase == <<"a", "b", "c", "d", "e", "f", "g", "h", "i", "j", "k", "l", "m",
               "n", "o", "p", "q", "r", "s", "t", "u", "v", "w", "x", "y", "z">>

UpperCase == <<"A", "B", "C", "D", "E", "F", "G", "H", "I", "J", "K", "L", "M",
               "N", "O", "P", "Q", "R", "S", "T", "U", "V", "W", "X", "Y", "Z">>

\* \w of the re module, on the characters the model uses.
WordChars == {LowerCase[i] : i \in 1..26} \cup {UpperCase[i] : i \in 1..26}
             \cup Digits \cup {"_"}

LowerChar(c) ==
    IF \E i \in 1..26 : UpperCase[i] = c
    THEN LowerCase[CHOOSE i \in 1..26 : UpperCase[i] = c]
    ELSE c

\* str.lower()
Lower(s) == [i \in 1..Len(s) |-> LowerChar(s[i])]

\* a or b, on strings
OrElse(a, b) == IF a # None THEN a ELSE b

\* whether t occurs in s at position i
OccursAt(t, s, i) ==
    /\ i >= 1
    /\ i + Len(t) - 1 <= Len(s)
    /\ \A j \in 1..Len(t) : s[i + j - 1] = t[j]

\* t in s
Contains(s, t) == \E i \in 1..(Len(s) + 1) : OccursAt(t, s, i)

\* the end (exclusive) of the longest run of characters of set S from i
RunEnd(s, i, S) ==
    CHOOSE k \in i..(Len(s) + 1) :
        /\ \A j \in i..(k - 1) : s[j] \in S
        /\ k = Len(s) + 1 \/ s[k] \notin S

\* str.rstrip('/')
RStripSlash(s) ==
    LET keep == CHOOSE k \in 0..Len(s) :
                    /\ k = 0 \/ s[k] # "/"
                    /\ \A j \in (k + 1)..Len(s) : s[j] = "/"
    IN  SubSeq(s, 1, keep)

-----------------------------------------------------------------------------
(* Configuration and vocabulary *)

PHYSICS_KEYWORDS ==
    {<<"h", "a", "d", "r", "o", "n">>,
     <<"q", "u", "a", "r", "k">>,
     <<"g", "l", "u", "o", "n">>,
     <<"m", "e", "s", "o", "n">>,
     <<"b", "a", "r", "y", "o", "n">>,
     <<"q", "c", "d">>,
     <<"l", "a", "t", "t", "i", "c", "e">>,
     <<"p", "i", "o", "n">>,
     <<"k", "a", "o", "n">>,
     <<"p", "r", "o", "t", "o", "n">>,
     <<"n", "e", "u", "t", "r", "o", "n">>,
     <<"n", "u", "c", "l", "e", "o", "n">>,
     <<"p", "a", "r", "t", "o", "n">>,
     <<"c", "o", "n", "f", "i", "n", "e", "m", "e", "n", "t">>,
     <<"c", "h", "i", "r", "a", "l">>,
     <<"s", "y", "m", "m", "e", "t", "r", "y">>,
     <<"s", "c", "a", "t", "t", "e", "r", "i", "n", "g">>,
     <<"d", "e", "c", "a", "y">>,
     <<"c", "r", "o", "s", "s", "-", "s", "e", "c", "t", "i", "o", "n">>,
     <<"f", "o", "r", "m", " ", "f", "a", "c", "t", "o", "r">>,
     <<"p", "d", "f">>,
     <<"g", "p", "d">>,
     <<"t", "m", "d">>,
     <<"d", "r", "e", "l", "l", "-", "y", "a", "n">>,
     <<"d", "e", "e", "p", " ", "i", "n", "e", "l", "a", "s", "t", "i", "c">>,
     <<"f", "r", "a", "g", "m", "e", "n", "t", "a", "t", "i", "o", "n">>,
     <<"j", "e", "t">>,
     <<"h", "e", "a", "v", "y", " ", "q", "u", "a", "r", "k">>,
     <<"c", "h", "a", "r", "m">>,
     <<"b", "o", "t", "t", "o", "m">>,
     <<"c", "h", "a", "r", "m", "o", "n", "i", "u", "m">>,
     <<"b", "o", "t", "t", "o", "m", "o", "n", "i", "u", "m">>,
     <<"e", "x", "o", "t", "i", "c">>,
     <<"t", "e", "t", "r", "a", "q", "u", "a", "r", "k">>,
     <<"p", "e", "n", "t", "a", "q", "u", "a", "r", "k">>,
     <<"g", "l", "u", "e", "b", "a", "l", "l">>,
     <<"h", "y", "b", "r", "i", "d">>,
     <<"e", "f", "f", "e", "c", "t", "i", "v", "e", " ", "f", "i", "e", "l", "d", " ", "t", "h", "e", "o", "r", "y">>,
     <<"e", "f", "t">>,
     <<"p", "e", "r", "t", "u", "r", "b", "a", "t", "i", "v", "e">>,
     <<"n", "o", "n", "-", "p", "e", "r", "t", "u", "r", "b", "a", "t", "i", "v", "e">>,
     <<"r", "e", "n", "o", "r", "m", "a", "l", "i", "z", "a", "t", "i", "o", "n">>,
     <<"f", "a", "c", "t", "o", "r", "i", "z", "a", "t", "i", "o", "n">>,
     <<"r", "e", "s", "u", "m", "m", "a", "t", "i", "o", "n">>,
     <<"c", "o", "l", "l", "i", "d", "e", "r">>,
     <<"l", "h", "c">>,
     <<"r", "h", "i", "c">>,
     <<"e", "l", "e", "c", "t", "r", "o", "n", "-", "i", "o", "n">>,
     <<"e", "i", "c">>,
     <<"q", "g", "p">>,
     <<"q", "u", "a", "r", "k", "-", "g", "l", "u", "o", "n", " ", "p", "l", "a", "s", "m", "a">>,
     <<"h", "e", "a", "v", "y", "-", "i", "o", "n">>,
     <<"n", "u", "c", "l", "e", "a", "r">>}

ARXIV_KEYWORDS ==
    {<<"h", "a", "d", "r", "o", "n">>,
     <<"Q", "C", "D">>,
     <<"q", "u", "a", "r", "k">>,
     <<"g", "l", "u", "o", "n">>,
     <<"m", "e", "s", "o", "n">>,
     <<"b", "a", "r", "y", "o", "n">>}

\* days_back of every fetch_hadron_papers call of the application
ArxivDaysBack == 7

\* hours of get_papers_since in send_daily_digest
DigestHours == 24

\* The clock starts late enough for every cutoff to be a positive time.
T0 == (ArxivDaysBack + 3) * 24

\* JOURNAL_FEEDS, in the order of the dict; the model keeps two of the five.
JOURNAL_FEEDS == <<"phys_rev_d", "ptep">>

NumFeeds == Len(JOURNAL_FEEDS)

-----------------------------------------------------------------------------
(* Normaliser: identifiers, dates, filter, tags *)

AllChars == WordChars \cup {"/", ".", ":", "-", " "}

\* The end (exclusive) of the match of 10\.\d{4,}/[^\s]+ that starts at i, or 0.
\* \d{4,} is greedy and can only be followed by "/" after its whole run.
DoiMatchEnd(s, i) ==
    IF ~OccursAt(<<"1", "0", ".">>, s, i) THEN 0
    ELSE LET d == RunEnd(s, i + 3, Digits)
         IN  IF /\ d - (i + 3) >= 4
                /\ d + 1 <= Len(s)
                /\ s[d] = "/"
                /\ s[d + 1] \notin Whitespace
             THEN RunEnd(s, d + 1, AllChars \ Whitespace)
             ELSE 0

extract_doi_from_link(link) ==
    IF link = None THEN None
    ELSE IF \E i \in 1..Len(link) : DoiMatchEnd(link, i) > 0
         THEN LET i == CHOOSE k \in 1..Len(link) :
                           /\ DoiMatchEnd(link, k) > 0
                           /\ \A j \in 1..(k - 1) : DoiMatchEnd(link, j) = 0
              IN  RStripSlash(SubSeq(link, i, DoiMatchEnd(link, i) - 1))
         ELSE None

\* doi of a journal entry (journal_client.py line 108)
JournalDoi(entry) ==
    OrElse(entry.prism_doi,
           OrElse(entry.dc_identifier, extract_doi_from_link(entry.link)))

\* an identifier that looks for a DOI in the fields only, never in the link
JournalExternalIdFieldsOnly(entry) ==
    OrElse(OrElse(OrElse(entry.prism_doi, entry.dc_identifier), entry.id), entry.link)

\* external_id of a journal entry (line 109)
JournalExternalId(entry) ==
    OrElse(JournalDoi(entry), OrElse(entry.id, entry.link))

\* external_id of an arXiv result (arxiv_client.py line 94)
ArxivExternalId(result) == result.entry_id

\* A date string of a feed: absent, unparseable, or standing for an hour.
NoDate == [kind |-> "none", at |-> 0]

BadDate == [kind |-> "unparseable", at |-> 0]

Hour(h) == [kind |-> "date", at |-> h]

\* a or b, on date strings
OrDate(a, b) == IF a # NoDate THEN a ELSE b

\* a parser that answers the epoch for what it cannot read
ParseDateOrEpoch(date_str, utcnow) ==
    IF date_str = NoDate THEN utcnow
    ELSE IF date_str.kind = "date" THEN date_str.at
    ELSE 0

\* parse_date
parse_date(date_str, utcnow) ==
    IF date_str = NoDate THEN utcnow
    ELSE IF date_str.kind = "date" THEN date_str.at
    ELSE utcnow

\* the argument of parse_date (journal_client.py lines 130-134)
JournalDateString(entry) ==
    OrDate(entry.published, OrDate(entry.prism_publicationdate, entry.updated))

\* f"{title} {summary}"
TitleAndSummary(title, summary) == title \o <<" ">> \o summary

\* a test that leaves the text in the case it came in
HasHadronTermExact(title, summary) ==
    \E term \in ARXIV_KEYWORDS : Contains(TitleAndSummary(title, summary), Lower(term))

\* any(term.lower() in text for term in hadron_terms)
HasHadronTerm(title, summary) ==
    LET text == Lower(TitleAndSummary(title, summary))
    IN  \E term \in ARXIV_KEYWORDS : Contains(text, Lower(term))

IsWordAt(s, k) == k >= 1 /\ k <= Len(s) /\ s[k] \in WordChars

\* \b between s[k] and s[k+1]
Boundary(s, k) == IsWordAt(s, k) # IsWordAt(s, k + 1)

\* a search for kw anywhere in the text, inside longer words too
KeywordOccurs(kw, text) == Contains(text, kw)

\* re.search(r'\b' + re.escape(kw) + r's?\b', text)
KeywordMatches(kw, text) ==
    \E i \in 1..Len(text) :
        /\ OccursAt(kw, text, i)
        /\ Boundary(text, i - 1)
        /\ \/ /\ i + Len(kw) <= Len(text)
              /\ text[i + Len(kw)] = "s"
              /\ Boundary(text, i + Len(kw))
           \/ Boundary(text, i + Len(kw) - 1)

extract_keywords(title, abstract) ==
    LET text == Lower(TitleAndSummary(title, abstract))
    IN  {kw \in PHYSICS_KEYWORDS : KeywordMatches(kw, text)}

-----------------------------------------------------------------------------
(* What the sources deliver: the raw entries the runs of the model read *)

DOI_A == <<"1", "0", ".", "1", "1", "0", "3", "/", "a">>

LINK_A == <<"u", "/", "1", "0", ".", "1", "1", "0", "3", "/", "a", "/">>

LINK_P == <<"u", "/", "p">>

ID_B == <<"i", "d", "b">>

AX1 == <<"x", "/", "1">>

AX2 == <<"x", "/", "2">>

BlankEntry ==
    [title |-> None, summary |-> None, prism_doi |-> None, dc_identifier |-> None,
     link |-> None, id |-> None, published |-> NoDate,
     prism_publicationdate |-> NoDate, updated |-> NoDate]

\* a DOI field, a feed id and a plain link; dated two days ahead
EntryDoi ==
    [BlankEntry EXCEPT !.title = <<"Q", "C", "D", " ", "p", "i", "o", "n", "s">>, !.prism_doi = DOI_A,
                       !.id = ID_B, !.link = LINK_P,
                       !.published = Hour(T0 + 2 * 24)]

\* no DOI field, a feed id, and a link that holds the same DOI; a publication
\* date that does not parse, and a date of update that would
EntryDoiLink ==
    [BlankEntry EXCEPT !.title = <<"q", "u", "a", "r", "k", "s">>, !.id = ID_B, !.link = LINK_A,
                       !.prism_publicationdate = BadDate,
                       !.updated = Hour(T0 - 36)]

\* a feed id and a plain link, no hadron term; dated 36 hours before T0
EntryFeedId ==
    [BlankEntry EXCEPT !.title = <<"k", "a", "o", "n">>, !.id = ID_B, !.link = LINK_P,
                       !.updated = Hour(T0 - 36)]

\* no DOI, no feed id, no link
EntryNoId == [BlankEntry EXCEPT !.title = <<"Q", "C", "D">>]

\* only a link, which is the identifier arXiv gives the same paper; no date
EntryLink == [BlankEntry EXCEPT !.title = <<"Q", "C", "D">>, !.link = AX1]

\* feed.entries of each feed is a sequence of these
FeedEntries(key) ==
    IF key = "phys_rev_d" THEN {EntryDoi, EntryDoiLink, EntryNoId}
    ELSE {EntryDoiLink, EntryFeedId, EntryLink}

\* client.results(search) is a sequence of these: one published six hours
\* inside the window of a run at T0, one a day outside it
ArxivResults ==
    {[entry_id |-> AX1, title |-> <<"p", "i", "o", "n", " ", "d", "e", "c", "a", "y">>, summary |-> None,
      published |-> T0 - ArxivDaysBack * 24 + 6, doi |-> None],
     [entry_id |-> AX2, title |-> <<"g", "l", "u", "o", "n", " ", "j", "e", "t", "s">>, summary |-> None,
      published |-> T0 - (ArxivDaysBack + 1) * 24, doi |-> DOI_A]}

Sources == {"arxiv"} \cup {JOURNAL_FEEDS[i] : i \in 1..NumFeeds}

-----------------------------------------------------------------------------
(* Store and session: Paper, Keyword, db.session *)

Range(seq) == {seq[i] : i \in 1..Len(seq)}

ExternalIds(rows) == {rows[i].external_id : i \in 1..Len(rows)}

\* a set as a sequence, in a fixed order (a Python set iterates in some order)
RECURSIVE SetToSeq(_)
SetToSeq(S) ==
    IF S = {} THEN <<>>
    ELSE LET x == CHOOSE y \in S : TRUE IN <<x>> \o SetToSeq(S \ {x})

\* Paper(...) of journal_client.py lines 137-148; authors, categories, pdf_url
\* and journal are copied from the entry and read by nothing modelled.
JournalPaper(entry, key, utcnow) ==
    [external_id |-> JournalExternalId(entry),
     source |-> key,
     title |-> entry.title,
     abstract |-> entry.summary,
     published_date |-> parse_date(JournalDateString(entry), utcnow),
     doi |-> JournalDoi(entry),
     keywords |-> extract_keywords(entry.title, entry.summary)]

\* Paper(...) of arxiv_client.py lines 93-103
ArxivPaper(result) ==
    [external_id |-> ArxivExternalId(result),
     source |-> "arxiv",
     title |-> result.title,
     abstract |-> result.summary,
     published_date |-> result.published,
     doi |-> result.doi,
     keywords |-> extract_keywords(result.title, result.summary)]

\* A session: objects added and not yet flushed, rows INSERTed by its open
\* transaction, and whether a failed flush left it awaiting a rollback.
NewSession ==
    [new |-> <<>>, rows |-> <<>>, newKw |-> <<>>, kwRows |-> <<>>, bad |-> FALSE]

\* the papers table without its uniqueness constraint
NoPaperConstraint(x, visibleRows) == FALSE

\* unique=True on papers.external_id: whether an INSERT of x is rejected
PaperUniqueViolation(x, visibleRows) == x \in ExternalIds(visibleRows)

\* unique=True on keywords.name
KeywordUniqueViolation(name, visibleNames) == name \in Range(visibleNames)

\* rows INSERTed and not yet committed by the transactions of the other threads
OthersPaperIds(p) ==
    UNION {ExternalIds(req[q].sess.rows) : q \in DOMAIN req \ {p}}

OthersKeywordNames(p) ==
    UNION {Range(req[q].sess.kwRows) : q \in DOMAIN req \ {p}}

\* session.flush() of thread p: "ok", "IntegrityError" when a uniqueness
\* constraint rejects an INSERT, "locked" when an INSERT has to wait for the
\* open transaction of another thread that holds the same key.
FlushOutcome(p, s) ==
    IF \/ \E i \in 1..Len(s.new) :
              \/ PaperUniqueViolation(s.new[i].external_id, papers \o s.rows)
              \/ \E j \in 1..(i - 1) :
                     PaperUniqueViolation(s.new[i].external_id, <<s.new[j]>>)
       \/ \E i \in 1..Len(s.newKw) :
              \/ KeywordUniqueViolation(s.newKw[i], keywords \o s.kwRows)
              \/ \E j \in 1..(i - 1) :
                     KeywordUniqueViolation(s.newKw[i], <<s.newKw[j]>>)
    THEN "IntegrityError"
    ELSE IF \/ ExternalIds(s.new) \cap OthersPaperIds(p) # {}
            \/ Range(s.newKw) \cap OthersKeywordNames(p) # {}
    THEN "locked"
    ELSE "ok"

\* the session after a flush that succeeded
Flushed(s) ==
    [s EXCEPT !.rows = s.rows \o s.new, !.new = <<>>,
              !.kwRows = s.kwRows \o s.newKw, !.newKw = <<>>]

\* the session after a flush that failed: the transaction is rolled back and
\* the session refuses every statement until session.rollback()
Broken == [NewSession EXCEPT !.bad = TRUE]

\* What a statement of thread p does first (autoflush=True): "ok", or the
\* exception it raises. A locked INSERT waits, or times out with
\* OperationalError.
StatementOutcomes(p, s) ==
    IF s.bad THEN {"PendingRollbackError"}
    ELSE IF FlushOutcome(p, s) = "locked" THEN {"OperationalError"}
    ELSE {FlushOutcome(p, s)}

\* a lookup that misses the rows the own transaction has not committed
PaperExistsCommittedOnly(s, x) == x \in ExternalIds(papers)

\* a lookup that never finds a row
PaperNeverFound(s, x) == FALSE

\* Paper.query.filter_by(external_id=x).first() is not None, after the
\* autoflush: the committed rows and the rows of the own transaction
PaperExists(s, x) == x \in ExternalIds(papers \o s.rows)

\* a lookup that misses the keywords the own transaction has not committed
KeywordExistsCommittedOnly(s, name) == name \in Range(keywords)

\* Keyword.query.filter_by(name=name).first() is not None
KeywordExists(s, name) == name \in Range(keywords \o s.kwRows \o s.newKw)

\* get_or_create_keyword for each name of names: the names to db.session.add
RECURSIVE AddKeywords(_, _)
AddKeywords(s, names) ==
    IF names = <<>> THEN s
    ELSE AddKeywords(
             IF KeywordExists(s, Head(names)) THEN s
             ELSE [s EXCEPT !.newKw = Append(s.newKw, Head(names))],
             Tail(names))

\* db.session.add(paper), after its keywords were got or created
AddPaper(s, paper) ==
    LET k == AddKeywords(s, SetToSeq(paper.keywords))
    IN  [k EXCEPT !.new = Append(k.new, paper)]

-----------------------------------------------------------------------------
(* A /refresh request: refresh_papers, fetch_all_sources, fetch_hadron_papers, *)
(* fetch_journal_papers                                                      *)

\* worker threads of the server
Threads == {1, 2}

Routes == {"arxiv", "journals", "all"}

\* gath[src]: the external ids source src appended to the papers list of its
\* adapter; st[src]: "none", "ok" or "failed"; log: the sources an error was
\* logged for; raised: the adapters whose exception reached their caller;
\* dberr: the first exception the store raised in this request; out: the
\* list the route received; flash: the category of its message.
IdleRequest ==
    [pc |-> "idle", route |-> "all", filter |-> TRUE, feed |-> 0, n |-> 0,
     cutoff |-> 0, gath |-> [src \in Sources |-> <<>>],
     st |-> [src \in Sources |-> "none"], log |-> {}, raised |-> {},
     dberr |-> "none", out |-> <<>>, flash |-> "none", sess |-> NewSession]

\* the exception of a source that fails (network, parse)
SourceError == "SourceError"

\* the request after exception exc was raised in it: a failed flush leaves
\* the session broken, any other exception leaves it as it was
Raised(r, exc) ==
    [r EXCEPT !.sess = IF exc \in {"IntegrityError", "OperationalError"}
                       THEN Broken ELSE r.sess,
              !.dberr = IF r.dberr = "none" /\ exc # SourceError
                        THEN exc ELSE r.dberr]

FeedKey(r) == JOURNAL_FEEDS[r.feed]

\* the papers list of fetch_journal_papers: what its feeds appended, in order
RECURSIVE JournalList(_, _)
JournalList(r, i) ==
    IF i > NumFeeds THEN <<>>
    ELSE r.gath[JOURNAL_FEEDS[i]] \o JournalList(r, i + 1)

\* the response is sent and the application context torn down:
\* db.session.remove() rolls back what was not committed
Finish(r, category) ==
    [r EXCEPT !.pc = "done", !.flash = category, !.sess = NewSession]

\* the for loop of fetch_journal_papers goes to its next feed, or ends
NextFeed(r) ==
    IF r.feed < NumFeeds THEN [r EXCEPT !.feed = r.feed + 1]
    ELSE [r EXCEPT !.pc = "jcommit"]

\* fetch_all_sources without the try around fetch_hadron_papers
ArxivRaisesUncaught(r, exc) ==
    Finish([Raised(r, exc) EXCEPT
                !.st["arxiv"] = "failed",
                !.raised = r.raised \cup {"fetch_hadron_papers", "fetch_all_sources"}],
           "danger")

\* an exception leaves fetch_hadron_papers: refresh_papers flashes it
\* (main.py lines 53-54), fetch_all_sources logs it and goes on to the
\* journals (journal_client.py lines 177-178) with the same session
ArxivRaises(r, exc) ==
    LET f == [Raised(r, exc) EXCEPT
                  !.st["arxiv"] = "failed",
                  !.raised = r.raised \cup {"fetch_hadron_papers"}]
    IN  IF r.route = "arxiv"
        THEN Finish(f, "danger")
        ELSE [f EXCEPT !.log = f.log \cup {"arxiv"}, !.pc = "feed", !.feed = 1]

\* an exception inside the try of one feed (lines 159-161): logged, next feed
FeedRaises(r, exc) ==
    NextFeed([Raised(r, exc) EXCEPT !.st[FeedKey(r)] = "failed",
                                    !.log = r.log \cup {FeedKey(r)}])

\* the comparison with the cutoff turned around
OutsideWindowInverted(published, cutoff) == published > cutoff

\* published < cutoff_date (arxiv_client.py line 84)
OutsideWindow(published, cutoff) == published < cutoff

\* lookup of external id x, and on a miss the creation of paper; src is the
\* source that appends to its list
Ingest(r, s, src, x, paper) ==
    [r EXCEPT !.gath[src] = Append(r.gath[src], x),
              !.sess = IF PaperExists(s, x) THEN s ELSE AddPaper(s, paper)]

\* one iteration of the loop over client.results(search), lines 81-112
ArxivResultSteps(p, result) ==
    LET r == [req[p] EXCEPT !.n = req[p].n + 1]
    IN  IF OutsideWindow(result.published, r.cutoff) THEN {r}
        ELSE {IF o = "ok"
              THEN Ingest(r, Flushed(r.sess), "arxiv", ArxivExternalId(result),
                          ArxivPaper(result))
              ELSE ArxivRaises(r, o)
              : o \in StatementOutcomes(p, r.sess)}

\* the loop over feed.entries without "if not external_id: continue"
JournalEntryStepsKeepNoId(p, entry) ==
    LET r == [req[p] EXCEPT !.n = req[p].n + 1]
        x == JournalExternalId(entry)
    IN  IF r.filter /\ ~HasHadronTerm(entry.title, entry.summary) THEN {r}
        ELSE {IF o = "ok"
              THEN Ingest(r, Flushed(r.sess), FeedKey(r), x,
                          JournalPaper(entry, FeedKey(r), now))
              ELSE FeedRaises(r, o)
              : o \in StatementOutcomes(p, r.sess)}

\* one iteration of the loop over feed.entries, lines 97-157
JournalEntrySteps(p, entry) ==
    LET r == [req[p] EXCEPT !.n = req[p].n + 1]
        x == JournalExternalId(entry)
    IN  IF r.filter /\ ~HasHadronTerm(entry.title, entry.summary) THEN {r}
        ELSE IF x = None THEN {r}
        ELSE {IF o = "ok"
              THEN Ingest(r, Flushed(r.sess), FeedKey(r), x,
                          JournalPaper(entry, FeedKey(r), now))
              ELSE FeedRaises(r, o)
              : o \in StatementOutcomes(p, r.sess)}

SetRequest(p, r) == req' = [req EXCEPT ![p] = r]

\* The sources as a tape. "off": they deliver anything. "record": they deliver
\* anything and the tape keeps it. "replay": they deliver what the tape holds,
\* that is, the same source data again.
TapeOff ==
    [mode |-> "off", route |-> "all", filter |-> TRUE, ev |-> <<>>, pos |-> 0,
     before |-> 0, round |-> 0]

\* a source delivers item (an entry, a result, a failure, its end)
Deliver(kind, item) ==
    /\ tape.mode = "replay" =>
           /\ tape.pos <= Len(tape.ev)
           /\ tape.ev[tape.pos].kind = kind
           /\ tape.ev[tape.pos].item = item
    /\ tape' = IF tape.mode = "record"
               THEN [tape EXCEPT !.ev = Append(tape.ev, [kind |-> kind, item |-> item])]
               ELSE IF tape.mode = "replay"
               THEN [tape EXCEPT !.pos = tape.pos + 1]
               ELSE tape

\* db.session.commit() that succeeds: the rows of the transaction are stored
CommitStore(s) ==
    /\ papers' = papers \o Flushed(s).rows
    /\ keywords' = keywords \o Flushed(s).kwRows

\* GET /refresh?source=... reaches refresh_papers
StartRequest(p, rt, flt) ==
    /\ req[p].pc \in {"idle", "done"}
    /\ SetRequest(p,
         IF rt = "journals"
         THEN [IdleRequest EXCEPT !.pc = "feed", !.route = rt, !.filter = flt,
                                  !.feed = 1]
         ELSE [IdleRequest EXCEPT !.pc = "arxiv", !.route = rt, !.filter = flt,
                                  !.cutoff = now - ArxivDaysBack * 24])
    /\ UNCHANGED <<storeVars, now, resp, digest, probe>>

Refresh(p, rt, flt) ==
    /\ tape.mode = "off"
    /\ StartRequest(p, rt, flt)
    /\ UNCHANGED tape

\* fetch_hadron_papers reads one more result
ArxivResult(p, result) ==
    /\ req[p].pc = "arxiv"
    /\ req[p].n < MaxEntries
    /\ Deliver("result", result)
    /\ \E r \in ArxivResultSteps(p, result) : SetRequest(p, r)
    /\ UNCHANGED <<storeVars, now, resp, digest, probe>>

\* the arXiv API fails (network, parse) while the results are read
ArxivFails(p) ==
    /\ req[p].pc = "arxiv"
    /\ Deliver("fail", None)
    /\ SetRequest(p, ArxivRaises(req[p], SourceError))
    /\ UNCHANGED <<storeVars, now, resp, digest, probe>>

\* the results are exhausted: db.session.commit() and return papers
ArxivDone(p) ==
    /\ req[p].pc = "arxiv"
    /\ Deliver("end", None)
    /\ \E o \in StatementOutcomes(p, req[p].sess) :
         IF o = "ok"
         THEN LET r == [req[p] EXCEPT !.st["arxiv"] = "ok",
                                      !.out = req[p].gath["arxiv"],
                                      !.sess = NewSession]
              IN  /\ CommitStore(req[p].sess)
                  /\ SetRequest(p, IF r.route = "arxiv" THEN Finish(r, "success")
                                   ELSE [r EXCEPT !.pc = "feed", !.feed = 1])
         ELSE /\ SetRequest(p, ArxivRaises(req[p], o))
              /\ UNCHANGED <<papers, keywords>>
    /\ UNCHANGED <<users, favorites, now, resp, digest, probe>>

\* fetch_journal_papers reads one more entry of the current feed
JournalEntry(p, entry) ==
    /\ req[p].pc = "feed"
    /\ req[p].n < MaxEntries
    /\ entry \in FeedEntries(FeedKey(req[p]))
    /\ Deliver("entry", entry)
    /\ \E r \in JournalEntrySteps(p, entry) : SetRequest(p, r)
    /\ UNCHANGED <<storeVars, now, resp, digest, probe>>

\* the fetch or the processing of the current feed fails
FeedFails(p) ==
    /\ req[p].pc = "feed"
    /\ Deliver("fail", None)
    /\ SetRequest(p, FeedRaises(req[p], SourceError))
    /\ UNCHANGED <<storeVars, now, resp, digest, probe>>

\* the entries of the current feed are exhausted
FeedDone(p) ==
    /\ req[p].pc = "feed"
    /\ Deliver("end", None)
    /\ SetRequest(p, NextFeed([req[p] EXCEPT !.st[FeedKey(req[p])] = "ok"]))
    /\ UNCHANGED <<storeVars, now, resp, digest, probe>>

\* db.session.commit() and return papers of fetch_journal_papers (lines
\* 163-164); fetch_all_sources logs an exception of it (lines 184-185)
JournalCommit(p) ==
    /\ req[p].pc = "jcommit"
    /\ \E o \in StatementOutcomes(p, req[p].sess) :
         IF o = "ok"
         THEN /\ CommitStore(req[p].sess)
              /\ SetRequest(p, Finish([req[p] EXCEPT
                                  !.out = req[p].out \o JournalList(req[p], 1)],
                                  "success"))
         ELSE LET r == [Raised(req[p], o) EXCEPT
                          !.raised = req[p].raised \cup {"fetch_journal_papers"}]
              IN  /\ SetRequest(p, IF r.route = "journals" THEN Finish(r, "danger")
                                   ELSE Finish([r EXCEPT !.log = r.log \cup {"journals"}],
                                               "success"))
              /\ UNCHANGED <<papers, keywords>>
    /\ UNCHANGED <<users, favorites, now, tape, resp, digest, probe>>

\* time passes between requests
Tick ==
    /\ now < T0 + MaxTicks * (DigestHours \div 2)
    /\ \A p \in Threads : req[p].pc \in {"idle", "done"}
    /\ now' = now + DigestHours \div 2
    /\ UNCHANGED <<storeVars, req, tape, resp, digest, probe>>

-----------------------------------------------------------------------------
(* Specifications *)

NoProbe == [stage |-> "none"]

NoResponse == [handler |-> "none"]

NoDigest == [stage |-> "none"]

InitIdle ==
    /\ papers = <<>>
    /\ keywords = <<>>
    /\ users = <<FALSE, FALSE>>
    /\ favorites = <<>>
    /\ now = T0
    /\ req = [p \in Threads |-> IdleRequest]
    /\ resp = NoResponse
    /\ digest = NoDigest
    /\ probe = NoProbe

Init == InitIdle /\ tape = TapeOff

\* one request at a time, served by thread 1
Next ==
    \/ \E rt \in Routes, flt \in BOOLEAN : Refresh(1, rt, flt)
    \/ \E result \in ArxivResults : ArxivResult(1, result)
    \/ ArxivFails(1)
    \/ ArxivDone(1)
    \/ \E entry \in FeedEntries("phys_rev_d") \cup FeedEntries("ptep") :
           JournalEntry(1, entry)
    \/ FeedFails(1)
    \/ FeedDone(1)
    \/ JournalCommit(1)

Spec == Init /\ [][Next]_vars

\* what the sources deliver while two requests overlap: the result and the
\* entries that reach the store
RaceResults == {r \in ArxivResults : r.entry_id = AX1}

RaceEntries == {EntryDoi, EntryDoiLink, EntryLink}

\* two requests, one per thread and each with its own session, may overlap
NextRace ==
    \E p \in Threads :
        \/ \E rt \in Routes : req[p].pc = "idle" /\ Refresh(p, rt, TRUE)
        \/ \E result \in RaceResults : ArxivResult(p, result)
        \/ ArxivFails(p)
        \/ ArxivDone(p)
        \/ \E entry \in RaceEntries : JournalEntry(p, entry)
        \/ FeedFails(p)
        \/ FeedDone(p)
        \/ JournalCommit(p)

SpecRace == Init /\ [][NextRace]_vars

\* a first run whose source data the tape records
RefreshFirst(rt, flt) ==
    /\ tape.mode # "off"
    /\ tape.round < MaxRounds
    /\ StartRequest(1, rt, flt)
    /\ tape' = [TapeOff EXCEPT !.mode = "record", !.route = rt, !.filter = flt,
                               !.round = tape.round + 1]

\* the same run again, on the same source data
RefreshSecond ==
    /\ tape.mode = "record"
    /\ req[1].pc = "done"
    /\ StartRequest(1, tape.route, tape.filter)
    /\ tape' = [tape EXCEPT !.mode = "replay", !.pos = 1, !.before = Len(papers)]

\* time passes between the first run and the second
TickBetween == tape.mode = "record" /\ Tick

InitIdem == InitIdle /\ tape = [TapeOff EXCEPT !.mode = "new"]

NextIdem ==
    \/ \E rt \in Routes, flt \in BOOLEAN : RefreshFirst(rt, flt)
    \/ RefreshSecond
    \/ TickBetween
    \/ \E result \in ArxivResults : ArxivResult(1, result)
    \/ ArxivFails(1)
    \/ ArxivDone(1)
    \/ \E entry \in FeedEntries("phys_rev_d") \cup FeedEntries("ptep") :
           JournalEntry(1, entry)
    \/ FeedFails(1)
    \/ FeedDone(1)
    \/ JournalCommit(1)

SpecIdem == InitIdem /\ [][NextIdem]_vars


-----------------------------------------------------------------------------
(* The normaliser on one raw entry: what a raw entry becomes, whatever else
   the run holds. *)

DOI_C == <<"1", "0", ".", "1", "1", "0", "3", "/", "c">>

\* a link whose number after "10." is too short for a DOI
LINK_S == <<"u", "/", "1", "0", ".", "1", "2", "/", "a">>

\* a link that ends in white space after the slash of a DOI prefix
LINK_W == <<"1", "0", ".", "1", "1", "0", "3", "/", " ">>

\* titles: hadron terms and vocabulary terms in upper and lower case, in the
\* plural, inside longer words, next to digits and hyphens, and absent
NormTitles ==
    {<<"Q", "C", "D">>,
     <<"k", "a", "o", "n">>,
     <<"P", "i", "o", "n", " ", "d", "e", "c", "a", "y", " ", "a", "n", "d", " ", "K", "a", "o", "n", "s">>,
     <<"q", "u", "a", "r", "k", "o", "n", "i", "u", "m">>,
     <<"d", "a", "r", "k", " ", "m", "a", "t", "t", "e", "r">>,
     <<"n", "o", "n", "-", "p", "e", "r", "t", "u", "r", "b", "a", "t", "i", "v", "e">>,
     <<"p", "i", "o", "n", "2">>,
     <<"f", "o", "r", "m">>}

\* summaries: absent, the second half of a two-word term, a plural
NormSummaries ==
    {None, <<"f", "a", "c", "t", "o", "r">>, <<"g", "l", "u", "o", "n", "s">>}

NormJournalEntries ==
    {[BlankEntry EXCEPT !.title = t, !.summary = a, !.prism_doi = d,
                        !.dc_identifier = c, !.id = i, !.link = l] :
        t \in NormTitles, a \in NormSummaries, d \in {None, DOI_A}, c \in {None, DOI_C},
        i \in {None, ID_B}, l \in {None, LINK_A, LINK_P, LINK_S, LINK_W}}

NormArxivResults ==
    {[entry_id |-> e, title |-> t, summary |-> a, published |-> T0, doi |-> d] :
        e \in {AX1, AX2}, t \in NormTitles, a \in NormSummaries, d \in {None, DOI_A}}

\* journal_client.py lines 97-148 on one entry of a feed
NormaliseJournal(flt) ==
    /\ probe.stage = "raw"
    /\ probe.src = "journal"
    /\ probe' =
         IF \/ flt /\ ~HasHadronTerm(probe.entry.title, probe.entry.summary)
            \/ JournalExternalId(probe.entry) = None
         THEN [probe EXCEPT !.stage = "dropped"]
         ELSE [probe EXCEPT !.stage = "record",
                            !.paper = JournalPaper(probe.entry, JOURNAL_FEEDS[1], now)]
    /\ UNCHANGED <<storeVars, now, req, tape, resp, digest>>

\* arxiv_client.py lines 93-103 on one result
NormaliseArxiv ==
    /\ probe.stage = "raw"
    /\ probe.src = "arxiv"
    /\ probe' = [probe EXCEPT !.stage = "record", !.paper = ArxivPaper(probe.entry)]
    /\ UNCHANGED <<storeVars, now, req, tape, resp, digest>>

InitNorm ==
    /\ papers = <<>>
    /\ keywords = <<>>
    /\ users = <<FALSE, FALSE>>
    /\ favorites = <<>>
    /\ now = T0
    /\ req = [p \in Threads |-> IdleRequest]
    /\ tape = TapeOff
    /\ resp = NoResponse
    /\ digest = NoDigest
    /\ \/ \E e \in NormJournalEntries :
              probe = [stage |-> "raw", src |-> "journal", entry |-> e, paper |-> None]
       \/ \E e \in NormArxivResults :
              probe = [stage |-> "raw", src |-> "arxiv", entry |-> e, paper |-> None]

NextNorm ==
    \/ \E flt \in BOOLEAN : NormaliseJournal(flt)
    \/ NormaliseArxiv

SpecNorm == InitNorm /\ [][NextNorm]_vars

-----------------------------------------------------------------------------
(* Favorites: app/routes/favorites.py.  Requests are served one at a time. *)

\* the rows of the papers table in these requests; a row's id is its position
FavPapers == SetToSeq({ArxivPaper(result) : result \in ArxivResults})

\* paper ids a request may name: the stored ones and one that is not stored
PaperIds == 1..(Len(FavPapers) + 1)

UserIds == 1..Len(users)

\* Favorite.query.filter_by(user_id=..., paper_id=...).first()
FavoriteRows(user_id, paper_id) ==
    {i \in 1..Len(favorites) :
        favorites[i] = [user_id |-> user_id, paper_id |-> paper_id]}

\* db.session.delete(favorite): the first matching row goes
DeleteFavorite(i) ==
    SubSeq(favorites, 1, i - 1) \o SubSeq(favorites, i + 1, Len(favorites))

\* line 37-40 and 59-62: the JSON of an XMLHttpRequest, else a redirect
FavoriteResponse(ajax, action) ==
    IF ajax THEN [code |-> 200, status |-> "success", action |-> action]
    ELSE [code |-> 302, status |-> "redirect", action |-> "none"]

\* add_favorite, lines 18-40
add_favorite(user_id, paper_id, ajax) ==
    /\ user_id \in UserIds
    /\ IF paper_id \notin 1..Len(papers)
       THEN /\ resp' = [handler |-> "add_favorite", user_id |-> user_id,
                        paper_id |-> paper_id, ajax |-> ajax, existing |-> FALSE,
                        flash |-> "none",
                        body |-> [code |-> 404, status |-> "not found", action |-> "none"]]
            /\ UNCHANGED favorites
       ELSE LET existing == FavoriteRows(user_id, paper_id) # {}
            IN  /\ favorites' =
                     IF existing THEN favorites
                     ELSE Append(favorites, [user_id |-> user_id, paper_id |-> paper_id])
                /\ resp' = [handler |-> "add_favorite", user_id |-> user_id,
                            paper_id |-> paper_id, ajax |-> ajax, existing |-> existing,
                            flash |-> IF existing THEN "Paper already in favorites."
                                      ELSE "Paper added to favorites.",
                            body |-> FavoriteResponse(ajax, "added")]
    /\ UNCHANGED <<papers, keywords, users, now, req, tape, digest, probe>>

\* remove_favorite, lines 43-62
remove_favorite(user_id, paper_id, ajax) ==
    /\ user_id \in UserIds
    /\ LET found == FavoriteRows(user_id, paper_id)
       IN  /\ favorites' =
                IF found # {}
                THEN DeleteFavorite(CHOOSE i \in found : \A j \in found : i <= j)
                ELSE favorites
           /\ resp' = [handler |-> "remove_favorite", user_id |-> user_id,
                       paper_id |-> paper_id, ajax |-> ajax, existing |-> found # {},
                       flash |-> IF found # {} THEN "Paper removed from favorites."
                                 ELSE "Paper not in favorites.",
                       body |-> FavoriteResponse(ajax, "removed")]
    /\ UNCHANGED <<papers, keywords, users, now, req, tape, digest, probe>>

InitFav ==
    /\ papers = FavPapers
    /\ keywords = <<>>
    /\ users = <<FALSE, FALSE>>
    /\ favorites = <<>>
    /\ now = T0
    /\ req = [p \in Threads |-> IdleRequest]
    /\ tape = TapeOff
    /\ resp = NoResponse
    /\ digest = NoDigest
    /\ probe = NoProbe

NextFav ==
    \/ \E u \in UserIds, pid \in PaperIds, ajax \in BOOLEAN : add_favorite(u, pid, ajax)
    \/ \E u \in UserIds, pid \in PaperIds, ajax \in BOOLEAN : remove_favorite(u, pid, ajax)

SpecFav == InitFav /\ [][NextFav]_vars

-----------------------------------------------------------------------------
(* The digest: scheduler.py, get_papers_since, and the settings form *)

\* rows that ingestion at T0 stores: the records of the feed entries and of
\* the arXiv results
DigestPapers ==
    {JournalPaper(EntryDoi, "phys_rev_d", T0), JournalPaper(EntryLink, "ptep", T0),
     JournalPaper(EntryFeedId, "ptep", T0)}
    \cup {ArxivPaper(result) : result \in ArxivResults}

\* Paper.query.filter(Paper.published_date >= cutoff) (arxiv_client.py line 121)
Since(published_date, cutoff) == published_date >= cutoff

\* .order_by(Paper.published_date.desc()).all(), on row ids
RECURSIVE NewestFirst(_)
NewestFirst(ids) ==
    IF ids = {} THEN <<>>
    ELSE LET top == CHOOSE i \in ids :
                        \A j \in ids :
                            \/ papers[i].published_date > papers[j].published_date
                            \/ papers[i].published_date = papers[j].published_date /\ i <= j
         IN  <<top>> \o NewestFirst(ids \ {top})

\* get_papers_since(hours)
get_papers_since(hours) ==
    NewestFirst({i \in 1..Len(papers) : Since(papers[i].published_date, now - hours)})

\* User.query.filter_by(email_digest_enabled=True).all(), in id order
RECURSIVE Subscribed(_)
Subscribed(n) ==
    IF n = 0 THEN <<>>
    ELSE Subscribed(n - 1) \o (IF users[n] THEN <<n>> ELSE <<>>)

\* a run of the job: the time and the flags it read, the users it took, those
\* whose send raises, and what it did
NewRun(subscribed, unreachable) ==
    [stage |-> "done", at |-> now, flags |-> users, users |-> subscribed,
     unreachable |-> unreachable,
     sent_count |-> 0, outbox |-> <<>>, failed |-> <<>>]

\* a loop over users that an exception of send_digest_email ends
RECURSIVE DigestLoopUntilFailure(_, _, _)
DigestLoopUntilFailure(us, body, run) ==
    IF us = <<>> \/ Head(us) \in run.unreachable THEN run
    ELSE DigestLoopUntilFailure(Tail(us), body,
             [run EXCEPT !.sent_count = run.sent_count + 1,
                         !.outbox = Append(run.outbox, [to |-> Head(us), papers |-> body])])

\* for user in users: try ... except (scheduler.py lines 95-101); mail.send
\* raises for the users in run.unreachable
RECURSIVE DigestLoop(_, _, _)
DigestLoop(us, body, run) ==
    IF us = <<>> THEN run
    ELSE IF Head(us) \in run.unreachable
         THEN DigestLoop(Tail(us), body,
                  [run EXCEPT !.failed = Append(run.failed, Head(us))])
         ELSE DigestLoop(Tail(us), body,
                  [run EXCEPT !.sent_count = run.sent_count + 1,
                              !.outbox = Append(run.outbox,
                                                [to |-> Head(us), papers |-> body])])

\* send_daily_digest, lines 83-103
send_daily_digest(unreachable) ==
    /\ digest' = DigestLoop(Subscribed(Len(users)), get_papers_since(DigestHours),
                            NewRun(Subscribed(Len(users)), unreachable))
    /\ UNCHANGED <<storeVars, now, req, tape, resp, probe>>

\* POST /settings, auth.py lines 91-96
settings(user_id, email_digest) ==
    /\ users' = [users EXCEPT ![user_id] = email_digest]
    /\ resp' = [handler |-> "settings", user_id |-> user_id,
                flash |-> "Settings updated."]
    /\ UNCHANGED <<papers, keywords, favorites, now, req, tape, digest, probe>>

InitDigest ==
    /\ \E S \in SUBSET DigestPapers :
           /\ Cardinality(S) >= Cardinality(DigestPapers) - 1
           /\ papers = SetToSeq(S)
    /\ keywords = <<>>
    /\ users = [u \in 1..DigestUsers |-> FALSE]
    /\ favorites = <<>>
    /\ now = T0
    /\ req = [p \in Threads |-> IdleRequest]
    /\ tape = TapeOff
    /\ resp = NoResponse
    /\ digest = NoDigest
    /\ probe = NoProbe

NextDigest ==
    \/ \E u \in 1..DigestUsers, on \in BOOLEAN : settings(u, on)
    \/ \E F \in SUBSET Range(Subscribed(Len(users))) : send_daily_digest(F)
    \/ Tick

SpecDigest == InitDigest /\ [][NextDigest]_vars

-----------------------------------------------------------------------------
(* The life of a Paper row: ingestion runs with favorites, settings and
   digest runs between them, one request at a time. *)

\* the arXiv result inside the window, and feed entries of which one has the
\* same identifier under another title
LifeResults == {result \in ArxivResults : result.entry_id = AX1}

LifeEntries == {EntryLink, EntryDoiLink}

\* no /refresh is being served
BetweenRuns == req[1].pc \in {"idle", "done"}

LifeAddFavorite == BetweenRuns /\ \E ajax \in BOOLEAN : add_favorite(1, 1, ajax)

LifeRemoveFavorite == BetweenRuns /\ remove_favorite(1, 1, FALSE)

LifeSettings == BetweenRuns /\ \E on \in BOOLEAN : settings(1, on)

LifeDigest == BetweenRuns /\ send_daily_digest({})

InitLife == InitIdle /\ tape = [TapeOff EXCEPT !.mode = "new"]

NextLife ==
    \/ \E rt \in Routes : RefreshFirst(rt, TRUE)
    \/ \E result \in LifeResults : ArxivResult(1, result)
    \/ ArxivFails(1)
    \/ ArxivDone(1)
    \/ \E entry \in LifeEntries : JournalEntry(1, entry)
    \/ FeedFails(1)
    \/ FeedDone(1)
    \/ JournalCommit(1)
    \/ LifeAddFavorite
    \/ LifeRemoveFavorite
    \/ LifeSettings
    \/ LifeDigest

SpecLife == InitLife /\ [][NextLife]_vars

-----------------------------------------------------------------------------
(* Properties of ingestion *)

NoDuplicateExternalId(rows) ==
    \A i, j \in 1..Len(rows) : i < j => rows[i].external_id # rows[j].external_id

RowsWith(x) == {i \in 1..Len(papers) : papers[i].external_id = x}

IsEntryEvent(ev) == ev.kind = "entry"

\* C1: a run repeated on the same source data (the same results, entries,
\* failures, in the same order) reads all of it again and leaves the number
\* of stored papers as the first run left it.
C1_SecondRunKeepsCount ==
    (tape.mode = "replay" /\ req[1].pc = "done") =>
        /\ tape.pos = Len(tape.ev) + 1
        /\ Len(papers) = tape.before

\* the first run of a behaviour stored papers, time passed, and the second
\* run on the same data has returned
C1_RepeatedAfterInsert ==
    /\ tape.mode = "replay"
    /\ tape.round = 1
    /\ req[1].pc = "done"
    /\ req[1].flash = "success"
    /\ tape.before > 0
    /\ now > T0

\* C2: no two Paper rows, stored, inserted by the open transaction or added
\* to the session, have the same external_id.
C2_AtMostOneRowPerExternalId ==
    NoDuplicateExternalId(papers \o req[1].sess.rows \o req[1].sess.new)

\* arXiv and a journal feed emitted the same identifier in one pass
C2_SameIdFromTwoAdapters ==
    /\ req[1].pc = "done"
    /\ req[1].route = "all"
    /\ req[1].flash = "success"
    /\ req[1].gath["arxiv"] = <<AX1>>
    /\ AX1 \in Range(req[1].gath["ptep"])
    /\ Cardinality(RowsWith(AX1)) = 1

\* C3, state part: the store never holds two rows with one external_id, and
\* a request in which the store rejected a statement ends with the error
\* flashed by refresh_papers or, where fetch_all_sources caught it, logged.
RaceSafe ==
    /\ NoDuplicateExternalId(papers)
    /\ \A p \in Threads :
           (req[p].pc = "done" /\ req[p].dberr # "none") =>
               IF req[p].route = "all" THEN req[p].log # {}
               ELSE req[p].flash = "danger"

\* C3, step part: committed rows stay as they are
RowsIntact ==
    /\ Len(papers') >= Len(papers)
    /\ \A i \in 1..Len(papers) : papers'[i] = papers[i]

C4_FailingAdapterIsolated ==
    req[1].pc = "done" =>
        /\ "fetch_hadron_papers" \notin req[1].raised
        /\ \A src \in Sources :
               req[1].st[src] = "failed" =>
                   /\ src \in req[1].log
                   /\ src # "arxiv" => req[1].gath[src] = <<>>
        /\ req[1].route # "arxiv" =>
               \A i \in 1..NumFeeds : req[1].st[JOURNAL_FEEDS[i]] # "none"

\* a step that ends the part of the run the request is in
RunStep ==
    \/ ArxivDone(1)
    \/ FeedDone(1)
    \/ JournalCommit(1)

\* C5: fetch_all_sources returns without raising whatever sources fail, its
\* list holds what every source that succeeded gathered, and no state of
\* the run is stuck.
C5_RunAlwaysCompletes ==
    /\ (req[1].route = "all" /\ req[1].pc = "done") =>
           /\ req[1].flash = "success"
           /\ "fetch_all_sources" \notin req[1].raised
           /\ \A src \in Sources :
                  req[1].st[src] = "ok" =>
                      Range(req[1].gath[src]) \subseteq Range(req[1].out)
    /\ (req[1].route = "all" /\ req[1].pc \in {"arxiv", "feed", "jcommit"}) =>
           ENABLED RunStep

\* arXiv and the first feed failed, the second feed succeeded, and the list
\* holds what it gathered
C5_TwoSourcesFailed ==
    /\ req[1].pc = "done"
    /\ req[1].route = "all"
    /\ req[1].st["arxiv"] = "failed"
    /\ req[1].st["phys_rev_d"] = "failed"
    /\ req[1].st["ptep"] = "ok"
    /\ req[1].gath["ptep"] # <<>>
    /\ req[1].out = req[1].gath["ptep"]

\* the entry the tape recorded in this step
LastRecorded == tape'.ev[Len(tape'.ev)]

\* C7: the step that reads an entry with no DOI, no feed id and no link
\* stores nothing, adds nothing to the session or to any list, logs nothing
\* and stays in the loop: only the count of entries read changes.
C7_EntryWithoutIdDropped ==
    [][(/\ tape.mode = "record"
        /\ tape'.mode = "record"
        /\ Len(tape'.ev) = Len(tape.ev) + 1
        /\ IsEntryEvent(LastRecorded)
        /\ JournalExternalId(LastRecorded.item) = None)
       => /\ papers' = papers
          /\ req'[1] = [req[1] EXCEPT !.n = req[1].n + 1]]_vars

\* an entry without identifier was read, and the entry after it was stored
C7_DroppedThenNextStored ==
    /\ tape.mode = "record"
    /\ req[1].pc = "done"
    /\ req[1].flash = "success"
    /\ \E i \in 1..(Len(tape.ev) - 1) :
           /\ IsEntryEvent(tape.ev[i])
           /\ tape.ev[i].item = EntryNoId
           /\ IsEntryEvent(tape.ev[i + 1])
           /\ JournalExternalId(tape.ev[i + 1].item) \in ExternalIds(papers)
           /\ Len(req[1].out) = 1

-----------------------------------------------------------------------------
(* Properties of the normaliser *)

\* the DOI field of a raw entry: of a feed entry prism_doi or dc_identifier,
\* of an arXiv result doi
DoiField(src, e) ==
    IF src = "arxiv" THEN e.doi ELSE OrElse(e.prism_doi, e.dc_identifier)

\* the unique id the feed gives: of a feed entry id, of an arXiv result entry_id
FeedId(src, e) == IF src = "arxiv" THEN e.entry_id ELSE e.id

CanonicalLink(src, e) == IF src = "arxiv" THEN e.entry_id ELSE e.link

\* C6 as the specification states it: the external_id of a record is the DOI
\* field of its entry if it has one, else the feed id if it has one, else the
\* link.
C6_DoiThenFeedIdThenLink ==
    probe.stage = "record" =>
        probe.paper.external_id =
            OrElse(DoiField(probe.src, probe.entry),
                   OrElse(FeedId(probe.src, probe.entry),
                          CanonicalLink(probe.src, probe.entry)))

\* C6: the external_id of a record of a feed entry is its prism_doi, else its
\* dc_identifier, else the DOI found in its link, else its feed id, else its
\* link; the external_id of a record of an arXiv result is its entry_id,
\* whether it has a DOI or not.
C6_ResolutionOrder ==
    probe.stage = "record" =>
        LET e == probe.entry
            x == probe.paper.external_id
        IN  IF probe.src = "arxiv" THEN x = e.entry_id
            ELSE IF e.prism_doi # None THEN x = e.prism_doi
            ELSE IF e.dc_identifier # None THEN x = e.dc_identifier
            ELSE IF extract_doi_from_link(e.link) # None
                 THEN /\ x = extract_doi_from_link(e.link)
                      /\ Contains(e.link, x)
                      /\ SubSeq(x, 1, 3) = <<"1", "0", ".">>
                      /\ x[Len(x)] # "/"
            ELSE IF e.id # None THEN x = e.id
            ELSE x = e.link

\* an entry with a feed id whose link holds a DOI became a record named by
\* the DOI of the link
C6_LinkDoiBeforeFeedId ==
    /\ probe.stage = "record"
    /\ probe.src = "journal"
    /\ DoiField("journal", probe.entry) = None
    /\ probe.entry.id = ID_B
    /\ probe.entry.link = LINK_A
    /\ probe.paper.external_id = DOI_A

-----------------------------------------------------------------------------
(* Properties of favorites *)

\* what a response to add_favorite tells its client: the JSON of an
\* XMLHttpRequest, the flashed message of the page a redirect leads to
Reported(r) == IF r.ajax THEN r.body.action ELSE r.flash

AlreadyExists == {"Paper already in favorites.", "already exists", "exists"}

\* C8: after add_favorite answered for a stored paper there is exactly one
\* Favorite row of the user and the paper, and an add that found the row
\* reports that it already exists, as a redirect and as JSON.
C8_FavoriteOnceAndReported ==
    (resp.handler = "add_favorite" /\ resp.body.code # 404) =>
        /\ Cardinality(FavoriteRows(resp.user_id, resp.paper_id)) = 1
        /\ resp.existing => Reported(resp) \in AlreadyExists

-----------------------------------------------------------------------------
(* Properties of the digest *)

Recipients(run) == {run.outbox[i].to : i \in 1..Len(run.outbox)}

\* the stored papers published in the 24 hours before the run
PublishedInLastDay(at) ==
    {i \in 1..Len(papers) :
        /\ papers[i].published_date >= at - DigestHours
        /\ papers[i].published_date <= at}

\* C9: the users a digest run takes are exactly those whose flag is on, and
\* the body of every mail lists exactly the stored papers published in the 24
\* hours before the run.
C9_DigestSelection ==
    digest.stage = "done" =>
        /\ Range(digest.users) = {u \in 1..DigestUsers : digest.flags[u]}
        /\ \A k \in 1..Len(digest.outbox) :
               Range(digest.outbox[k].papers) = PublishedInLastDay(digest.at)

\* C10: a digest run tries every subscribed user: those whose send raised
\* are logged, all the others got their mail, and sent_count is the number
\* of mails sent.
C10_SendFailureIsolated ==
    digest.stage = "done" =>
        /\ Recipients(digest) = Range(digest.users) \ digest.unreachable
        /\ Range(digest.failed) = Range(digest.users) \cap digest.unreachable
        /\ digest.sent_count = Cardinality(Range(digest.users) \ digest.unreachable)
        /\ digest.sent_count = Len(digest.outbox)

\* the send to the first of three subscribed users failed, the other two
\* got their mail
C10_FirstFailsOthersSent ==
    /\ digest.stage = "done"
    /\ digest.users = <<1, 2, 3>>
    /\ digest.unreachable = {1}
    /\ digest.failed = <<1>>
    /\ Recipients(digest) = {2, 3}
    /\ digest.sent_count = 2

-----------------------------------------------------------------------------
(* Properties of the keyword tagger and of the relevance filter *)

SameLetter(a, b) == LowerChar(a) = LowerChar(b)

\* text holds word at i, letter for letter, whatever the case
SpelledAt(word, text, i) ==
    /\ i + Len(word) - 1 <= Len(text)
    /\ \A j \in 1..Len(word) : SameLetter(text[i + j - 1], word[j])

\* no letter, digit or underscore at position k of text
NoWordCharAt(text, k) ==
    k < 1 \/ k > Len(text) \/ LowerChar(text[k]) \notin WordChars

\* term stands in text as a word of its own, or with an "s" after it
WholeWordIn(term, text) ==
    \E i \in 1..Len(text) :
        \E word \in {term, term \o <<"s">>} :
            /\ SpelledAt(word, text, i)
            /\ NoWordCharAt(text, i - 1)
            /\ NoWordCharAt(text, i + Len(word))

Pion == <<"p", "i", "o", "n">>

Decay == <<"d", "e", "c", "a", "y">>

Kaon == <<"k", "a", "o", "n">>

\* C11: the tags of a record are exactly the vocabulary terms that stand in
\* its title, a space and its abstract as a whole word in any case, with or
\* without an "s" after it.
C11_TagsAreWholeWordTerms ==
    probe.stage = "record" =>
        probe.paper.keywords =
            {term \in PHYSICS_KEYWORDS :
                WholeWordIn(term, probe.entry.title \o <<" ">> \o probe.entry.summary)}

\* the record of "Pion decay and Kaons" is tagged pion, decay and kaon and
\* nothing else
C11_PionDecayKaonTagged ==
    /\ probe.stage = "record"
    /\ Contains(probe.entry.title, <<"P", "i", "o", "n", " ", "d", "e", "c", "a", "y">>)
    /\ Contains(probe.entry.title, <<"K", "a", "o", "n", "s">>)
    /\ probe.entry.summary = None
    /\ probe.paper.keywords = {Pion, Decay, Kaon}

\* no configured hadron term is spelled anywhere in title, space, summary
NoHadronTermIn(entry) ==
    LET text == entry.title \o <<" ">> \o entry.summary
    IN  \A term \in ARXIV_KEYWORDS :
            \A i \in 1..Len(text) : ~SpelledAt(term, text, i)

\* the stored rows and the rows the request is about to store
RowsOf(r) == papers \o r.sess.rows \o r.sess.new

\* C12: the step that reads a feed entry without any hadron term changes
\* nothing but the count of entries read when the filter is on; in every
\* other case an entry with an identifier is appended to the list of its
\* feed and has a row, stored or about to be.
C12_FilterExcludesOnlyTermless ==
    [][(/\ tape.mode = "record"
        /\ tape'.mode = "record"
        /\ Len(tape'.ev) = Len(tape.ev) + 1
        /\ IsEntryEvent(LastRecorded))
       => LET entry == LastRecorded.item
              x == JournalExternalId(entry)
              key == JOURNAL_FEEDS[req[1].feed]
          IN  IF req[1].filter /\ NoHadronTermIn(entry)
              THEN /\ papers' = papers
                   /\ req'[1] = [req[1] EXCEPT !.n = req[1].n + 1]
              ELSE x # None =>
                       /\ req'[1].gath[key] = Append(req[1].gath[key], x)
                       /\ x \in ExternalIds(RowsOf(req'[1]))]_vars

\* with the filter on, an entry without hadron term was read and left out,
\* and the entry after it was stored
C12_TermlessEntryLeftOut ==
    /\ tape.mode = "record"
    /\ tape.filter
    /\ req[1].pc = "done"
    /\ req[1].flash = "success"
    /\ \E i \in 1..(Len(tape.ev) - 1) :
           /\ IsEntryEvent(tape.ev[i])
           /\ tape.ev[i].item = EntryFeedId
           /\ IsEntryEvent(tape.ev[i + 1])
           /\ tape.ev[i + 1].item = EntryLink
    /\ ExternalIds(papers) = {AX1}
    /\ req[1].out = <<AX1>>

-----------------------------------------------------------------------------
(* Properties of the life of a row *)

\* every stored row is, after the step, the row it was: same place, same
\* fields, same tags
RowsKept ==
    \A i \in 1..Len(papers) : i <= Len(papers') /\ papers'[i] = papers[i]

\* this step read one more item from a source
ReadsItem ==
    /\ tape.mode = "record"
    /\ tape'.mode = "record"
    /\ Len(tape'.ev) = Len(tape.ev) + 1
    /\ LastRecorded.kind \in {"entry", "result"}

\* the identifier the lookup of this step is made with; None when the item
\* is skipped before the lookup
LookedUp ==
    IF LastRecorded.kind = "result"
    THEN IF LastRecorded.item.published >= req[1].cutoff
         THEN LastRecorded.item.entry_id ELSE None
    ELSE IF req[1].filter /\ NoHadronTermIn(LastRecorded.item) THEN None
         ELSE JournalExternalId(LastRecorded.item)

\* the source whose list the request is filling
CurrentSource ==
    IF req[1].pc = "arxiv" THEN "arxiv" ELSE JOURNAL_FEEDS[req[1].feed]

\* C13: no step of an ingestion run, of add_favorite, remove_favorite,
\* settings or a digest run changes or removes a stored Paper row; the step
\* of a run that looks up an identifier that is stored appends it to the list
\* of its source and adds no row.
C13_StoredRowsNeverChange ==
    [][/\ RowsKept
       /\ (ReadsItem /\ LookedUp \in ExternalIds(papers)) =>
              /\ papers' = papers
              /\ RowsOf(req'[1]) = RowsOf(req[1])
              /\ req'[1].gath[CurrentSource] =
                     Append(req[1].gath[CurrentSource], LookedUp)]_vars

\* the row of x/1 came from arXiv; it was made a favorite, a digest was sent
\* and the second run met x/1 in a feed under another title: it is the only
\* row and has the title arXiv gave it
C13_MetAgainUnderOtherTitle ==
    /\ tape.mode = "record"
    /\ tape.round = MaxRounds
    /\ req[1].pc = "done"
    /\ req[1].flash = "success"
    /\ \E i \in 1..Len(tape.ev) :
           IsEntryEvent(tape.ev[i]) /\ tape.ev[i].item = EntryLink
    /\ AX1 \in Range(req[1].out)
    /\ Len(papers) = 1
    /\ papers[1].external_id = AX1
    /\ papers[1].source = "arxiv"
    /\ papers[1].title # EntryLink.title
    /\ favorites # <<>>
    /\ digest.stage = "done"

-----------------------------------------------------------------------------
(* Properties of the tags *)

\* the Keyword rows: stored, inserted by the open transaction, added to the
\* session
KeywordRowsOf(r) == keywords \o r.sess.kwRows \o r.sess.newKw

NoDuplicateName(rows) ==
    \A i, j \in 1..Len(rows) : i < j => rows[i] # rows[j]

Qcd == <<"q", "c", "d">>

\* no two Keyword rows have the same name, and every tag of every Paper row
\* has a Keyword row
TagRowsUnique ==
    /\ NoDuplicateName(KeywordRowsOf(req[1]))
    /\ \A i \in 1..Len(RowsOf(req[1])) :
           RowsOf(req[1])[i].keywords \subseteq Range(KeywordRowsOf(req[1]))

\* the tags of the Paper row a step creates are the vocabulary terms that
\* stand in its title and abstract
NewRowTagged ==
    Len(RowsOf(req'[1])) > Len(RowsOf(req[1])) =>
        LET row == RowsOf(req'[1])[Len(RowsOf(req'[1]))]
        IN  row.keywords =
                {term \in PHYSICS_KEYWORDS :
                    WholeWordIn(term, row.title \o <<" ">> \o row.abstract)}

\* C14: no two Keyword rows, stored or about to be, have the same name, also
\* when several new papers of one run match a term that is not stored yet;
\* every vocabulary term that matches a new paper becomes its tag, and every
\* tag has its one Keyword row.
C14_OneRowPerTagName == [](TagRowsUnique) /\ [][NewRowTagged]_vars

\* one run on an empty store created two papers that both match the term
\* qcd, and one Keyword row qcd
C14_TwoNewPapersOneTag ==
    /\ tape.mode = "record"
    /\ tape.round = 1
    /\ req[1].pc = "done"
    /\ req[1].flash = "success"
    /\ \E i, j \in 1..Len(papers) :
           /\ i < j
           /\ Qcd \in papers[i].keywords
           /\ Qcd \in papers[j].keywords
    /\ Cardinality({k \in 1..Len(keywords) : keywords[k] = Qcd}) = 1

-----------------------------------------------------------------------------
(* Properties of dates *)

\* the date string the code reads: the first of published,
\* prism_publicationdate and updated that the entry has
FirstDateOf(entry) ==
    IF entry.published # NoDate THEN entry.published
    ELSE IF entry.prism_publicationdate # NoDate THEN entry.prism_publicationdate
    ELSE entry.updated

Unreadable(date_str) == date_str = NoDate \/ date_str = BadDate

\* C15: the step that reads a feed entry which passes the filter, has an
\* identifier not stored yet, and has no date or one that does not parse,
\* creates its record with the time of the run as published date, logs
\* nothing and stays in the loop over the feed.
C15_UnreadableDateKeepsEntry ==
    [][(/\ ReadsItem
        /\ IsEntryEvent(LastRecorded)
        /\ LookedUp # None
        /\ LookedUp \notin ExternalIds(RowsOf(req[1]))
        /\ Unreadable(FirstDateOf(LastRecorded.item)))
       => /\ Len(RowsOf(req'[1])) = Len(RowsOf(req[1])) + 1
          /\ LET row == RowsOf(req'[1])[Len(RowsOf(req'[1]))]
             IN  /\ row.external_id = LookedUp
                 /\ row.published_date = now
          /\ req'[1].gath[CurrentSource] = Append(req[1].gath[CurrentSource], LookedUp)
          /\ req'[1].pc = "feed"
          /\ req'[1].feed = req[1].feed
          /\ req'[1].log = req[1].log
          /\ req'[1].st = req[1].st]_vars

\* an entry whose publication date does not parse was stored with the time
\* of the run, not with its date of update, and the entry after it was
\* stored too
C15_BadDateStoredThenNext ==
    /\ tape.mode = "record"
    /\ req[1].pc = "done"
    /\ req[1].flash = "success"
    /\ \E i \in 1..(Len(tape.ev) - 1) :
           /\ IsEntryEvent(tape.ev[i])
           /\ tape.ev[i].item = EntryDoiLink
           /\ IsEntryEvent(tape.ev[i + 1])
           /\ tape.ev[i + 1].item = EntryLink
    /\ \E k \in 1..Len(papers) :
           /\ papers[k].external_id = DOI_A
           /\ papers[k].title = EntryDoiLink.title
           /\ papers[k].published_date >= T0
    /\ AX1 \in ExternalIds(papers)
    /\ req[1].out = <<DOI_A, AX1>>

-----------------------------------------------------------------------------
(* Properties of what a run returns *)

\* the source a stored row came from
SourceOf(row) == row.source

\* C16: when fetch_all_sources has returned from a run that began with an
\* empty store, the stored rows are the records of the returned list and the
\* records of the returned list are stored, and no stored row comes from a
\* source that the run reported as failed.
C16_ReturnedIsPersisted ==
    (/\ tape.mode = "record"
     /\ tape.round = 1
     /\ tape.route = "all"
     /\ req[1].pc = "done") =>
        /\ ExternalIds(papers) \subseteq Range(req[1].out)
        /\ Range(req[1].out) \subseteq ExternalIds(papers)
        /\ \A i \in 1..Len(papers) : req[1].st[SourceOf(papers[i])] # "failed"

=============================================================================
